---- MODULE Spec2Model ----
(***************************************************************************)
(* Model of gpggohigh: the file jobs of encrypt.go (ModRecipients,         *)
(* EncryptFile, DecryptFile), the byte-buffer operations of signatures.go  *)
(* (SignBytes, VerifyBytes) and the key record builder of keys.go          *)
(* (fillKey, fillUserIDs, fillUidSignatures).                              *)
(*                                                                         *)
(* The gpgme engine and the operating system are the environment: every    *)
(* call into them either succeeds with the effect the call is made for or  *)
(* fails with an error, chosen nondeterministically.                       *)
(***************************************************************************)
EXTENDS Integers, Sequences, FiniteSets, TLC

VARIABLES
    fs,      \* the filesystem: path -> content, DOMAIN fs = the existing paths
    pc,      \* job -> position in the function the job runs
    call,    \* job -> the arguments of the call
    loc,     \* job -> the local variables of the call
    ret,     \* job -> the named results of the call
    held,    \* job -> engine contexts and data handles acquired and not released
    called,  \* job -> engine operations the call has invoked (history)
    fs0,     \* job -> the filesystem when the call was made (history)
    exit,    \* job -> the step whose return statement ended the call (history)
    engErr,  \* job -> what the engine's file operation returned (history)
    deferred \* job -> the deferred calls the call has registered

vars == <<fs, pc, call, loc, ret, held, called, fs0, exit, engErr, deferred>>

(***************************************************************************)
(* Bounds of the model.                                                    *)
(***************************************************************************)
MaxRecipients == 2
\* the longest plaintext signed
MaxLen == 3
\* the length of the chunk buffer of the drain loops: make([]byte, 10240) in
\* the code, scaled down so that buffers shorter than, as long as and longer
\* than one chunk occur within MaxLen
ChunkSize == 2
\* the most signatures on one user ID
MaxSigs == 3

Jobs == {1, 2}

(***************************************************************************)
(* Values.                                                                 *)
(***************************************************************************)
nil == "<nil>"
DIR == "<dir>"
PARTIAL == "<partial>"

\* gpgme.EncryptFlag is a bit set; a flag value is the set of its bits and
\* the | of the code is set union.
EncryptAddRecp == {"AddRecp"}
EncryptChgRecp == {"ChgRecp"}
EncryptAlwaysTrust == {"AlwaysTrust"}
EncryptFileFlag == {"File"}

\* the error texts of the environment
EngineErrs == {"General error"}
DecryptErrs == {"No data", "Decryption failed"}
EOF == "EOF"
ENOENT == "no such file or directory"
EIO == "input/output error"

\* RandomString(8): eight characters of [a-zA-Z0-9]
RandomStrings == {"aaaaaaaa", "Zz9Zz9Zz"}

\* the arguments the calls are made with
Operations ==
    {EncryptAddRecp, EncryptChgRecp, EncryptAlwaysTrust,
     EncryptAddRecp \cup EncryptChgRecp}
BackupExtensions == {"", ".bak", ".tmp"}
SourceNames == {"a.gpg", "a.pgp", "a.asc", ".gpg", "a.GPG", "d.asc", "x.pgp"}
DestinationNames == {"", "a", "a.gpg", "d.asc"}
Patterns == {"alice", "nobody"}

RECURSIVE SeqsUpTo(_, _)
SeqsUpTo(S, n) ==
    IF n = 0 THEN {<<>>}
    ELSE LET shorter == SeqsUpTo(S, n - 1)
         IN  shorter \cup {Append(s, x) : s \in {t \in shorter : Len(t) = n - 1}, x \in S}

RecipientLists == SeqsUpTo(Patterns, MaxRecipients)

\* the keyring the engine's lookup answers from
Keyring(pattern) == IF pattern = "alice" THEN <<"KEY_ALICE">> ELSE <<>>

(***************************************************************************)
(* The filesystem.                                                         *)
(***************************************************************************)
Exists(f, p) == p \in DOMAIN f
IsDir(f, p) == Exists(f, p) /\ f[p] = DIR
IsFile(f, p) == Exists(f, p) /\ f[p] # DIR

WriteFile(f, p, c) == [q \in DOMAIN f \cup {p} |-> IF q = p THEN c ELSE f[q]]
RemoveFile(f, p) == [q \in DOMAIN f \ {p} |-> f[q]]
RenameFile(f, old, new) ==
    [q \in (DOMAIN f \ {old}) \cup {new} |-> IF q = new THEN f[old] ELSE f[q]]

\* os.Rename succeeds only on an existing path and never onto a directory
CanRename(f, old, new) == Exists(f, old) /\ ~IsDir(f, new)
\* os.Remove succeeds only on an existing file
CanRemove(f, p) == IsFile(f, p)

BaseFS ==
    [p \in {"a.gpg", "a.pgp", "a.asc", ".gpg", "a.GPG", "d.asc"} |->
        CASE p = "a.gpg" -> "c1"
          [] p = "a.pgp" -> "c2"
          [] p = "a.asc" -> "c3"
          [] p = ".gpg"  -> "c4"
          [] p = "a.GPG" -> "c5"
          [] p = "d.asc" -> DIR]

InitialFS == {BaseFS, WriteFile(BaseFS, "a", "old")}

\* what the engine writes
ReEncrypted(c) == "re(" \o c \o ")"
Encrypted(c) == "enc(" \o c \o ")"
Decrypted(c) == "dec(" \o c \o ")"
ContentOf(f, p) == IF Exists(f, p) THEN f[p] ELSE ""

(***************************************************************************)
(* Steps shared by the file jobs.                                          *)
(***************************************************************************)
NoLocals ==
    [randomFilePart |-> "", outFilename |-> "", destination |-> "",
     thisRecipients |-> <<>>, i |-> 1,
     armor |-> FALSE, dataIn |-> <<>>, dataOut |-> <<>>, pos |-> 0,
     cipherTextPart |-> <<>>, plainTextPart |-> <<>>]
\* the zero values of the named results
NoResults == [err |-> nil]
DecryptFileResults ==
    [err |-> nil, warning |-> "", decryptionResult |-> nil, filename |-> "",
     signatures |-> nil]
SignBytesResults ==
    [err |-> nil, cipherText |-> <<>>, n |-> 0, signingFingerPrints |-> <<>>]
VerifyBytesResults ==
    [err |-> nil, plainText |-> <<>>, signatures |-> nil, filename |-> ""]
\* KeyType, KeyUserIDsType and KeyUidIssuerSignatureType: the fields the
\* builder decides; a nil slice or map is the empty one
NoKey == [HasUserIDs |-> FALSE, UserIDs |-> <<>>]
NoUserID == [HasSignatures |-> FALSE, Signatures |-> <<>>]
NoSignature == [IssuerKeyID |-> "", CreationTime |-> 0, Comment |-> ""]
FillKeyResults == [key |-> NoKey]

\* the argument records of the three functions, before the arguments are bound
NoArgs == [kind |-> "none"]
ModRecipientsArgs ==
    [kind |-> "ModRecipients", operation |-> {}, filename |-> "",
     backupExtension |-> "", recipients |-> <<>>]
EncryptFileArgs ==
    [kind |-> "EncryptFile", sourceFilename |-> "", destinationFilename |-> "",
     recipients |-> <<>>, sign |-> FALSE]
DecryptFileArgs ==
    [kind |-> "DecryptFile", cypherFilename |-> "", clearFilename |-> ""]
SignBytesArgs ==
    [kind |-> "SignBytes", plainText |-> <<>>, signWith |-> "", armored |-> FALSE]
VerifyBytesArgs == [kind |-> "VerifyBytes", cipherText |-> <<>>]
FillKeyArgs == [kind |-> "fillKey", k |-> <<>>]

\* the call is made: the arguments are bound and the results are zero
Enter(j, args, zero, first) ==
    /\ pc[j] = "idle"
    /\ call' = [call EXCEPT ![j] = args]
    /\ ret' = [ret EXCEPT ![j] = zero]
    /\ pc' = [pc EXCEPT ![j] = first]
    /\ fs0' = [fs0 EXCEPT ![j] = fs]
    /\ UNCHANGED <<fs, loc, held, called, exit, engErr, deferred>>

\* mutant: no deferred Close for the output data handle
Deferred_NoDataOut(acquired) ==
    {<<"Release", h>> : h \in acquired \cap {"ctx"}}
        \cup {<<"Close", h>> : h \in acquired \cap {"dataIn"}}

\* the defer statement that follows an acquisition: defer myContext.Release()
\* for a context, defer dataIn.Close() and defer dataOut.Close() for the data
\* handles
Deferred(acquired) ==
    {<<"Release", h>> : h \in acquired \cap {"ctx"}}
        \cup {<<"Close", h>> : h \in acquired \cap {"dataIn", "dataOut"}}

\* the handles a set of deferred calls releases when it runs
Released(calls) == {c[2] : c \in calls}

\* the step falls through to the next statement, holding what it acquired,
\* the defer statement for it executed
Goto(j, next, acquired) ==
    /\ pc' = [pc EXCEPT ![j] = next]
    /\ held' = [held EXCEPT ![j] = @ \cup acquired]
    /\ deferred' = [deferred EXCEPT ![j] = @ \cup Deferred(acquired)]
    /\ UNCHANGED exit

\* a return statement: the deferred Release and Close calls run
Return(j, results) ==
    /\ pc' = [pc EXCEPT ![j] = "done"]
    /\ held' = [held EXCEPT ![j] = @ \ Released(deferred[j])]
    /\ deferred' = [deferred EXCEPT ![j] = {}]
    /\ ret' = [ret EXCEPT ![j] = results]
    /\ exit' = [exit EXCEPT ![j] = pc[j]]

ReturnErr(j, e) == Return(j, [ret[j] EXCEPT !.err = e])

Invoke(j, op) == called' = [called EXCEPT ![j] = @ \cup {op}]

\* a call into the engine that touches no file: it succeeds or fails
EngineStep(j, here, op, acquired, next, prefix) ==
    /\ pc[j] = here
    /\ Invoke(j, op)
    /\ \/ Goto(j, next, acquired) /\ UNCHANGED ret
       \/ \E e \in EngineErrs : ReturnErr(j, prefix \o e)
    /\ UNCHANGED <<fs, call, loc, fs0, engErr>>

\* the engine reads the file named in and writes the file named out: the
\* outcomes are pairs <<error, filesystem after>>. A failing engine leaves
\* the output untouched or partly written.
EngineFileOp(f, in, out, output, errs) ==
    LET able == IsFile(f, in) /\ ~IsDir(f, out)
    IN  {<<e, f>> : e \in errs}
        \cup (IF able
              THEN {<<nil, WriteFile(f, out, output)>>}
                   \cup {<<e, WriteFile(f, out, PARTIAL)>> : e \in errs}
              ELSE {})

(***************************************************************************)
(* ModRecipients(operation, filename, backupExtension, recipients)         *)
(***************************************************************************)
\* mutant: the engine is told to write the source path itself
OutFilename_InPlace(filename, randomFilePart) == filename

\* mutant: the temp path has no random part
OutFilename_NoRandom(filename, randomFilePart) == filename \o ".tmp"

OutFilename(filename, randomFilePart) == filename \o randomFilePart \o ".tmp"

\* mutant: the error of the engine's Encrypt is not looked at
EncryptFailed_Ignored(err) == FALSE

\* if err != nil, after myContext.Encrypt
EncryptFailed(err) == err # nil

\* mutant: step (1) renames the source onto itself
BackupFilename_Source(filename, randomFilePart, backupExtension) == filename

BackupFilename(filename, randomFilePart, backupExtension) ==
    filename \o randomFilePart \o backupExtension

\* mutant: the tag is tested as a bit mask instead of compared
ValidOperation_Mask(operation) ==
    operation \cap (EncryptAddRecp \cup EncryptChgRecp) # {}

ValidOperation(operation) ==
    ~(operation # EncryptAddRecp /\ operation # EncryptChgRecp)

CallModRecipients(j) ==
    \E operation \in Operations, filename \in SourceNames,
       backupExtension \in BackupExtensions, recipients \in RecipientLists :
        Enter(j, [ModRecipientsArgs EXCEPT
                      !.operation = operation, !.filename = filename,
                      !.backupExtension = backupExtension,
                      !.recipients = recipients], NoResults, "M_CheckOp")

M_CheckOp(j) ==
    /\ pc[j] = "M_CheckOp"
    /\ IF ValidOperation(call[j].operation)
       THEN Goto(j, "M_Stat", {}) /\ UNCHANGED ret
       ELSE ReturnErr(j, "ModRecipients - invalid operation")
    /\ UNCHANGED <<fs, call, loc, called, fs0, engErr>>

M_Stat(j) ==
    /\ pc[j] = "M_Stat"
    /\ IF ~Exists(fs, call[j].filename)
       THEN ReturnErr(j, "ModRecipients - file does not exist: " \o ENOENT)
       ELSE IF IsDir(fs, call[j].filename)
       THEN ReturnErr(j, "ModRecipients - file is a directory: " \o nil)
       ELSE Goto(j, "M_New", {}) /\ UNCHANGED ret
    /\ UNCHANGED <<fs, call, loc, called, fs0, engErr>>

M_New(j) ==
    EngineStep(j, "M_New", "New", {"ctx"}, "M_SetProtocol",
               "ModRecipients - gpgme.New failed: ")

M_SetProtocol(j) ==
    EngineStep(j, "M_SetProtocol", "SetProtocol", {}, "M_NewDataIn",
               "ModRecipients - SetProtocol failed: ")

M_NewDataIn(j) ==
    EngineStep(j, "M_NewDataIn", "NewData", {"dataIn"}, "M_SetFileNameIn",
               "ModRecipients - NewData (in) failed: ")

M_SetFileNameIn(j) ==
    EngineStep(j, "M_SetFileNameIn", "SetFileName", {}, "M_NewDataOut",
               "ModRecipients - SetFileName (in) failed: ")

M_NewDataOut(j) ==
    EngineStep(j, "M_NewDataOut", "NewData", {"dataOut"}, "M_SetFileNameOut",
               "ModRecipients - NewData (out) failed: ")

M_SetFileNameOut(j) ==
    /\ pc[j] = "M_SetFileNameOut"
    /\ Invoke(j, "SetFileName")
    /\ \E r \in RandomStrings :
        LET randomFilePart == "." \o r
        IN  loc' = [loc EXCEPT ![j].randomFilePart = randomFilePart,
                               ![j].outFilename =
                                   OutFilename(call[j].filename, randomFilePart)]
    /\ \/ Goto(j, "M_FindKeys", {}) /\ UNCHANGED ret
       \/ \E e \in EngineErrs :
            ReturnErr(j, "ModRecipients - SetFileName (out) failed: " \o e)
    /\ UNCHANGED <<fs, call, fs0, engErr>>

\* one turn of the loop over recipients, or its exit
M_FindKeys(j) ==
    /\ pc[j] = "M_FindKeys"
    /\ IF loc[j].i <= Len(call[j].recipients)
       THEN /\ Invoke(j, "FindKeys")
            /\ \/ /\ loc' = [loc EXCEPT
                       ![j].thisRecipients =
                           @ \o Keyring(call[j].recipients[loc[j].i]),
                       ![j].i = @ + 1]
                  /\ Goto(j, "M_FindKeys", {}) /\ UNCHANGED ret
               \/ /\ \E e \in EngineErrs :
                       ReturnErr(j, "ModRecipients - FindKeys failed: " \o e)
                  /\ UNCHANGED loc
       ELSE /\ Goto(j, "M_Encrypt", {}) /\ UNCHANGED <<ret, loc, called>>
    /\ UNCHANGED <<fs, call, fs0, engErr>>

M_Encrypt(j) ==
    /\ pc[j] = "M_Encrypt"
    /\ Invoke(j, "Encrypt")
    /\ \E o \in EngineFileOp(fs, call[j].filename, loc[j].outFilename,
                             ReEncrypted(ContentOf(fs, call[j].filename)),
                             EngineErrs) :
        /\ fs' = o[2]
        /\ engErr' = [engErr EXCEPT ![j] = o[1]]
        /\ IF EncryptFailed(o[1])
           THEN ReturnErr(j, "ModRecipients - Encrypt failed: " \o o[1])
           ELSE Goto(j, "M_CloseOut", {}) /\ UNCHANGED ret
    /\ UNCHANGED <<call, loc, fs0>>

M_CloseOut(j) ==
    /\ pc[j] = "M_CloseOut"
    /\ Invoke(j, "Close")
    /\ \/ /\ pc' = [pc EXCEPT ![j] = "M_CloseIn"]
          /\ held' = [held EXCEPT ![j] = @ \ {"dataOut"}]
          /\ UNCHANGED <<ret, exit, deferred>>
       \/ \E e \in EngineErrs :
            ReturnErr(j, "ModRecipients - Close (out) failed: " \o e)
    /\ UNCHANGED <<fs, call, loc, fs0, engErr>>

M_CloseIn(j) ==
    /\ pc[j] = "M_CloseIn"
    /\ Invoke(j, "Close")
    /\ \/ /\ pc' = [pc EXCEPT ![j] = "M_Commit1"]
          /\ held' = [held EXCEPT ![j] = @ \ {"dataIn"}]
          /\ UNCHANGED <<ret, exit, deferred>>
       \/ \E e \in EngineErrs :
            ReturnErr(j, "ModRecipients - Close (in) failed: " \o e)
    /\ UNCHANGED <<fs, call, loc, fs0, engErr>>

\* step (1) of the commit: the source becomes the backup, or is removed
M_Commit1(j) ==
    LET filename == call[j].filename
        backup == BackupFilename(filename, loc[j].randomFilePart,
                                 call[j].backupExtension)
    IN  /\ pc[j] = "M_Commit1"
        /\ IF call[j].backupExtension # ""
           THEN \/ /\ CanRename(fs, filename, backup)
                   /\ fs' = RenameFile(fs, filename, backup)
                   /\ Goto(j, "M_Commit2", {}) /\ UNCHANGED ret
                \/ /\ \E e \in {ENOENT, EIO} :
                        /\ e = ENOENT => ~Exists(fs, filename)
                        /\ ReturnErr(j, "ModRecipients - file rename (1) failed: " \o e)
                   /\ UNCHANGED fs
           ELSE \/ /\ CanRemove(fs, filename)
                   /\ fs' = RemoveFile(fs, filename)
                   /\ Goto(j, "M_Commit2", {}) /\ UNCHANGED ret
                \/ /\ \E e \in {ENOENT, EIO} :
                        /\ e = ENOENT => ~Exists(fs, filename)
                        /\ ReturnErr(j, "ModRecipients - file remove failed: " \o e)
                   /\ UNCHANGED fs
        /\ UNCHANGED <<call, loc, called, fs0, engErr>>

\* step (2) of the commit: the temporary output becomes the source
M_Commit2(j) ==
    LET filename == call[j].filename
        outFilename == loc[j].outFilename
    IN  /\ pc[j] = "M_Commit2"
        /\ \/ /\ CanRename(fs, outFilename, filename)
              /\ fs' = RenameFile(fs, outFilename, filename)
              /\ ReturnErr(j, nil)
           \/ /\ \E e \in {ENOENT, EIO} :
                   /\ e = ENOENT => ~Exists(fs, outFilename)
                   /\ ReturnErr(j, "ModRecipients - file rename (2) failed: " \o e)
              /\ UNCHANGED fs
        /\ UNCHANGED <<call, loc, called, fs0, engErr>>

ModRecipients(j) ==
    \/ M_CheckOp(j) \/ M_Stat(j) \/ M_New(j) \/ M_SetProtocol(j)
    \/ M_NewDataIn(j) \/ M_SetFileNameIn(j) \/ M_NewDataOut(j)
    \/ M_SetFileNameOut(j) \/ M_FindKeys(j) \/ M_Encrypt(j)
    \/ M_CloseOut(j) \/ M_CloseIn(j) \/ M_Commit1(j) \/ M_Commit2(j)

(***************************************************************************)
(* EncryptFile(sourceFilename, destinationFilename, recipients, sign)      *)
(***************************************************************************)
EncryptDestination(sourceFilename, destinationFilename) ==
    IF destinationFilename = ""
    THEN sourceFilename \o ".gpg"
    ELSE destinationFilename

CallEncryptFile(j) ==
    \E sourceFilename \in SourceNames, destinationFilename \in DestinationNames,
       recipients \in RecipientLists, sign \in BOOLEAN :
        Enter(j, [EncryptFileArgs EXCEPT
                      !.sourceFilename = sourceFilename,
                      !.destinationFilename = destinationFilename,
                      !.recipients = recipients, !.sign = sign],
                 NoResults, "E_New")

E_New(j) ==
    EngineStep(j, "E_New", "New", {"ctx"}, "E_SetProtocol",
               "EncryptFile - gpgme.New failed: ")

E_SetProtocol(j) ==
    EngineStep(j, "E_SetProtocol", "SetProtocol", {}, "E_NewDataIn",
               "EncryptFile - SetProtocol failed: ")

E_NewDataIn(j) ==
    EngineStep(j, "E_NewDataIn", "NewData", {"dataIn"}, "E_SetFileNameIn",
               "EncryptFile - NewData (in) failed: ")

E_SetFileNameIn(j) ==
    EngineStep(j, "E_SetFileNameIn", "SetFileName", {}, "E_NewDataOut",
               "EncryptFile - SetFileName (in) failed: ")

E_NewDataOut(j) ==
    EngineStep(j, "E_NewDataOut", "NewData", {"dataOut"}, "E_SetFileNameOut",
               "EncryptFile - NewData (out) failed: ")

E_SetFileNameOut(j) ==
    /\ pc[j] = "E_SetFileNameOut"
    /\ Invoke(j, "SetFileName")
    /\ loc' = [loc EXCEPT ![j].destination =
                   EncryptDestination(call[j].sourceFilename,
                                      call[j].destinationFilename)]
    /\ \/ Goto(j, "E_FindKeys", {}) /\ UNCHANGED ret
       \/ \E e \in EngineErrs :
            ReturnErr(j, "EncryptFile - SetFileName (out) failed: " \o e)
    /\ UNCHANGED <<fs, call, fs0, engErr>>

E_FindKeys(j) ==
    /\ pc[j] = "E_FindKeys"
    /\ IF loc[j].i <= Len(call[j].recipients)
       THEN /\ Invoke(j, "FindKeys")
            /\ \/ /\ loc' = [loc EXCEPT
                       ![j].thisRecipients =
                           @ \o Keyring(call[j].recipients[loc[j].i]),
                       ![j].i = @ + 1]
                  /\ Goto(j, "E_FindKeys", {}) /\ UNCHANGED ret
               \/ /\ \E e \in EngineErrs :
                       ReturnErr(j, "EncryptFile - FindKeys (out) failed: " \o e)
                  /\ UNCHANGED loc
       ELSE /\ Goto(j, "E_Encrypt", {}) /\ UNCHANGED <<ret, loc, called>>
    /\ UNCHANGED <<fs, call, fs0, engErr>>

E_Encrypt(j) ==
    /\ pc[j] = "E_Encrypt"
    /\ Invoke(j, IF call[j].sign THEN "EncryptSign" ELSE "Encrypt")
    /\ \E o \in EngineFileOp(fs, call[j].sourceFilename, loc[j].destination,
                             Encrypted(ContentOf(fs, call[j].sourceFilename)),
                             EngineErrs) :
        /\ fs' = o[2]
        /\ engErr' = [engErr EXCEPT ![j] = o[1]]
        /\ IF o[1] # nil
           THEN ReturnErr(j, "EncryptFile - Encrypt failed: " \o o[1])
           ELSE ReturnErr(j, o[1])
    /\ UNCHANGED <<call, loc, fs0>>

EncryptFile(j) ==
    \/ E_New(j) \/ E_SetProtocol(j) \/ E_NewDataIn(j) \/ E_SetFileNameIn(j)
    \/ E_NewDataOut(j) \/ E_SetFileNameOut(j) \/ E_FindKeys(j) \/ E_Encrypt(j)

(***************************************************************************)
(* DecryptFile(cypherFilename, clearFilename)                              *)
(***************************************************************************)
\* mutant: the .asc alternative is left out
DecryptDestination_NoAsc(cypherFilename, clearFilename) ==
    LET n == Len(cypherFilename)
    IN  IF clearFilename = ""
        THEN IF n > 4 /\ (\/ SubSeq(cypherFilename, n - 3, n) = ".gpg"
                          \/ SubSeq(cypherFilename, n - 3, n) = ".pgp")
             THEN <<TRUE, SubSeq(cypherFilename, 1, n - 4)>>
             ELSE <<FALSE, "">>
        ELSE <<TRUE, clearFilename>>

\* the destination of lines 269-282: <<found, destination>>
DecryptDestination(cypherFilename, clearFilename) ==
    LET n == Len(cypherFilename)
    IN  IF clearFilename = ""
        THEN IF n > 4 /\ (\/ SubSeq(cypherFilename, n - 3, n) = ".gpg"
                          \/ SubSeq(cypherFilename, n - 3, n) = ".pgp"
                          \/ SubSeq(cypherFilename, n - 3, n) = ".asc")
             THEN <<TRUE, SubSeq(cypherFilename, 1, n - 4)>>
             ELSE <<FALSE, "">>
        ELSE <<TRUE, clearFilename>>

NoExtensionError ==
    "DecryptFile - no destination filename given, and no extension found"

\* mutant: only a directory at the destination is refused
DestinationExists_DirOnly(f, destination) == IsDir(f, destination)

\* os.Stat(destination) returned no error
DestinationExists(f, destination) == Exists(f, destination)

\* mutant: every engine error is taken for the no-data condition
IsNoData_Any(e) == TRUE

\* the engine error the code continues on
IsNoData(e) == e = "No data"

CallDecryptFile(j) ==
    \E cypherFilename \in SourceNames, clearFilename \in DestinationNames :
        Enter(j, [DecryptFileArgs EXCEPT
                      !.cypherFilename = cypherFilename,
                      !.clearFilename = clearFilename],
                 DecryptFileResults, "D_Stat")

D_Stat(j) ==
    /\ pc[j] = "D_Stat"
    /\ IF ~Exists(fs, call[j].cypherFilename)
       THEN ReturnErr(j, "DecryptFile - file does not exist: " \o ENOENT)
       ELSE IF IsDir(fs, call[j].cypherFilename)
       THEN ReturnErr(j, "DecryptFile - file is a directory: " \o nil)
       ELSE Goto(j, "D_New", {}) /\ UNCHANGED ret
    /\ UNCHANGED <<fs, call, loc, called, fs0, engErr>>

D_New(j) ==
    EngineStep(j, "D_New", "New", {"ctx"}, "D_SetProtocol",
               "DecryptFile - gpgme.New failed: ")

D_SetProtocol(j) ==
    EngineStep(j, "D_SetProtocol", "SetProtocol", {}, "D_NewDataIn",
               "DecryptFile - SetProtocol failed: ")

D_NewDataIn(j) ==
    EngineStep(j, "D_NewDataIn", "NewData", {"dataIn"}, "D_SetFileNameIn",
               "DecryptFile - NewData (in) failed: ")

D_SetFileNameIn(j) ==
    EngineStep(j, "D_SetFileNameIn", "SetFileName", {}, "D_NewDataOut",
               "DecryptFile - SetFileName (in) failed: ")

D_NewDataOut(j) ==
    EngineStep(j, "D_NewDataOut", "NewData", {"dataOut"}, "D_Destination",
               "DecryptFile - NewData (out) failed: ")

D_Destination(j) ==
    LET d == DecryptDestination(call[j].cypherFilename, call[j].clearFilename)
    IN  /\ pc[j] = "D_Destination"
        /\ IF d[1]
           THEN /\ loc' = [loc EXCEPT ![j].destination = d[2]]
                /\ Goto(j, "D_StatDestination", {}) /\ UNCHANGED ret
           ELSE /\ ReturnErr(j, NoExtensionError)
                /\ UNCHANGED loc
        /\ UNCHANGED <<fs, call, called, fs0, engErr>>

D_StatDestination(j) ==
    /\ pc[j] = "D_StatDestination"
    /\ IF DestinationExists(fs, loc[j].destination)
       THEN ReturnErr(j, "DecryptFile - destination file exists: "
                          \o loc[j].destination)
       ELSE Goto(j, "D_SetFileNameOut", {}) /\ UNCHANGED ret
    /\ UNCHANGED <<fs, call, loc, called, fs0, engErr>>

D_SetFileNameOut(j) ==
    EngineStep(j, "D_SetFileNameOut", "SetFileName", {}, "D_DecryptVerify",
               "DecryptFile - SetFileName (out) failed: ")

D_DecryptVerify(j) ==
    /\ pc[j] = "D_DecryptVerify"
    /\ Invoke(j, "DecryptVerify")
    /\ \E o \in EngineFileOp(fs, call[j].cypherFilename, loc[j].destination,
                             Decrypted(ContentOf(fs, call[j].cypherFilename)),
                             DecryptErrs) :
        /\ fs' = o[2]
        /\ engErr' = [engErr EXCEPT ![j] = o[1]]
        /\ IF o[1] # nil
           THEN IF IsNoData(o[1])
                THEN /\ Goto(j, "D_DecryptResult", {})
                     /\ ret' = [ret EXCEPT
                            ![j].err = o[1],
                            ![j].warning =
                                "DecryptFile - DecryptVerify: no encrypted data"]
                ELSE ReturnErr(j, "DecryptFile - DecryptVerify failed: " \o o[1])
           ELSE Goto(j, "D_DecryptResult", {}) /\ UNCHANGED ret
    /\ UNCHANGED <<call, loc, fs0>>

D_DecryptResult(j) ==
    /\ pc[j] = "D_DecryptResult"
    /\ Invoke(j, "DecryptResult")
    /\ \/ /\ Goto(j, "D_VerifyResult", {})
          /\ ret' = [ret EXCEPT ![j].decryptionResult = "DecryptResult",
                                ![j].err = nil]
       \/ \E e \in EngineErrs :
            ReturnErr(j, "DecryptFile - DecryptResult failed: " \o e)
    /\ UNCHANGED <<fs, call, loc, fs0, engErr>>

D_VerifyResult(j) ==
    /\ pc[j] = "D_VerifyResult"
    /\ Invoke(j, "VerifyResult")
    /\ \/ Return(j, [ret[j] EXCEPT !.filename = "embedded",
                                   !.signatures = "Signatures",
                                   !.err = nil])
       \/ \E e \in EngineErrs :
            ReturnErr(j, "DecryptFile - VerifyResult failed: " \o e)
    /\ UNCHANGED <<fs, call, loc, fs0, engErr>>

DecryptFile(j) ==
    \/ D_Stat(j) \/ D_New(j) \/ D_SetProtocol(j) \/ D_NewDataIn(j)
    \/ D_SetFileNameIn(j) \/ D_NewDataOut(j) \/ D_Destination(j)
    \/ D_StatDestination(j) \/ D_SetFileNameOut(j) \/ D_DecryptVerify(j)
    \/ D_DecryptResult(j) \/ D_VerifyResult(j)

(***************************************************************************)
(* The engine's data objects and its sign and verify operations.           *)
(***************************************************************************)
Bytes == {"p", "q"}
Plaintexts == SeqsUpTo(Bytes, MaxLen)
Min(a, b) == IF a < b THEN a ELSE b

\* make([]byte, ChunkSize): a zeroed buffer
Zeroed(n) == [k \in 1..n |-> "0"]

\* the signed message the engine makes of a plaintext: a header (the armor
\* line, or the binary packet tag), the literal data and the signature
SignedMessage(plain, armor) ==
    <<IF armor THEN "-----BEGIN PGP MESSAGE-----" ELSE "PKT">>
        \o plain \o <<"SIG">>
IsSignedMessage(msg) ==
    /\ Len(msg) >= 2
    /\ msg[1] \in {"-----BEGIN PGP MESSAGE-----", "PKT"}
    /\ msg[Len(msg)] = "SIG"
LiteralData(msg) == SubSeq(msg, 2, Len(msg) - 1)
Fingerprint(key) == "fpr:" \o key

\* Data.Read(buf) at offset pos: <<n, err, buf after, pos after>>; the read
\* fills buf from the front with as many bytes as fit or fewer, returns EOF
\* at the end of the data, or fails
DataRead(data, pos, buf) ==
    LET remaining == Len(data) - pos
        n == Min(Len(buf), remaining)
    IN  {<<0, e, buf, pos>> : e \in EngineErrs}
        \cup (IF remaining = 0
              THEN {<<0, EOF, buf, pos>>}
              ELSE {<<m, nil,
                      SubSeq(data, pos + 1, pos + m) \o SubSeq(buf, m + 1, Len(buf)),
                      pos + m>> : m \in 1..n})

(***************************************************************************)
(* SignBytes(plainText, signWith, armored)                                 *)
(***************************************************************************)
\* mutant: the whole chunk buffer is appended, not the n bytes read
SignAppend_Whole(cipherText, cipherTextPart, n) == cipherText \o cipherTextPart

\* cipherText = append(cipherText, cipherTextPart[:n]...)
SignAppend(cipherText, cipherTextPart, n) ==
    cipherText \o SubSeq(cipherTextPart, 1, n)

CallSignBytes(j) ==
    \E plainText \in Plaintexts, signWith \in Patterns, armored \in BOOLEAN :
        Enter(j, [SignBytesArgs EXCEPT !.plainText = plainText,
                                       !.signWith = signWith,
                                       !.armored = armored],
                 SignBytesResults, "S_New")

S_New(j) ==
    EngineStep(j, "S_New", "New", {"ctx"}, "S_SetProtocol",
               "SignBytes - gpgme.New failed: ")

\* SetProtocol, and on success SetArmor(armored)
S_SetProtocol(j) ==
    /\ pc[j] = "S_SetProtocol"
    /\ Invoke(j, "SetProtocol")
    /\ \/ /\ Goto(j, "S_NewDataIn", {}) /\ UNCHANGED ret
          /\ loc' = [loc EXCEPT ![j].armor = call[j].armored]
       \/ /\ \E e \in EngineErrs :
               ReturnErr(j, "SignBytes - SetProtocol failed: " \o e)
          /\ UNCHANGED loc
    /\ UNCHANGED <<fs, call, fs0, engErr>>

S_NewDataIn(j) ==
    /\ pc[j] = "S_NewDataIn"
    /\ Invoke(j, "NewDataBytes")
    /\ \/ /\ Goto(j, "S_NewDataOut", {"dataIn"}) /\ UNCHANGED ret
          /\ loc' = [loc EXCEPT ![j].dataIn = call[j].plainText]
       \/ /\ \E e \in EngineErrs :
               ReturnErr(j, "SignBytes - NewData (in) failed: " \o e)
          /\ UNCHANGED loc
    /\ UNCHANGED <<fs, call, fs0, engErr>>

S_NewDataOut(j) ==
    EngineStep(j, "S_NewDataOut", "NewData", {"dataOut"}, "S_FindKeys",
               "SignBytes - NewData (out) failed: ")

S_FindKeys(j) ==
    /\ pc[j] = "S_FindKeys"
    /\ Invoke(j, "FindKeys")
    /\ \/ LET keys == Keyring(call[j].signWith)
          IN  /\ Goto(j, "S_Sign", {})
              /\ loc' = [loc EXCEPT ![j].thisRecipients = @ \o keys]
              /\ ret' = [ret EXCEPT ![j].signingFingerPrints =
                             [k \in 1..Len(keys) |-> Fingerprint(keys[k])]]
       \/ /\ \E e \in EngineErrs :
               ReturnErr(j, "SignBytes - FindKeys (out) failed: " \o e)
          /\ UNCHANGED loc
    /\ UNCHANGED <<fs, call, fs0, engErr>>

S_Sign(j) ==
    /\ pc[j] = "S_Sign"
    /\ Invoke(j, "Sign")
    /\ \/ LET out == SignedMessage(loc[j].dataIn, loc[j].armor)
          IN  /\ Goto(j, "S_Rewind", {}) /\ UNCHANGED ret
              /\ loc' = [loc EXCEPT ![j].dataOut = out, ![j].pos = Len(out)]
       \/ /\ \E e \in EngineErrs :
               ReturnErr(j, "SignBytes - Encrypt failed: " \o e)
          /\ UNCHANGED loc
    /\ UNCHANGED <<fs, call, fs0, engErr>>

\* Rewind, and on success the two make calls before the loop
S_Rewind(j) ==
    /\ pc[j] = "S_Rewind"
    /\ Invoke(j, "Rewind")
    /\ \/ /\ Goto(j, "S_Read", {})
          /\ loc' = [loc EXCEPT ![j].pos = 0,
                                ![j].cipherTextPart = Zeroed(ChunkSize)]
          /\ ret' = [ret EXCEPT ![j].cipherText = <<>>]
       \/ /\ \E e \in EngineErrs :
               ReturnErr(j, "SignBytes - Rewind failed: " \o e)
          /\ UNCHANGED loc
    /\ UNCHANGED <<fs, call, fs0, engErr>>

\* one turn of the drain loop, and the return that follows its break
S_Read(j) ==
    /\ pc[j] = "S_Read"
    /\ Invoke(j, "Read")
    /\ \E r \in DataRead(loc[j].dataOut, loc[j].pos, loc[j].cipherTextPart) :
        LET n == r[1]
            err == r[2]
        IN  /\ loc' = [loc EXCEPT ![j].cipherTextPart = r[3], ![j].pos = r[4]]
            /\ IF err # nil /\ err # EOF
               THEN Return(j, [ret[j] EXCEPT
                                  !.n = n,
                                  !.err = "SignBytes - Read failed: " \o err])
               ELSE LET cipherText ==
                            SignAppend(ret[j].cipherText, r[3], n)
                    IN  IF err = EOF
                        THEN Return(j, [ret[j] EXCEPT !.n = n, !.err = err,
                                                      !.cipherText = cipherText])
                        ELSE /\ Goto(j, "S_Read", {})
                             /\ ret' = [ret EXCEPT ![j].n = n, ![j].err = err,
                                                   ![j].cipherText = cipherText]
    /\ UNCHANGED <<fs, call, fs0, engErr>>

SignBytes(j) ==
    \/ S_New(j) \/ S_SetProtocol(j) \/ S_NewDataIn(j) \/ S_NewDataOut(j)
    \/ S_FindKeys(j) \/ S_Sign(j) \/ S_Rewind(j) \/ S_Read(j)

(***************************************************************************)
(* VerifyBytes(cipherText)                                                 *)
(***************************************************************************)
\* mutant: the whole chunk buffer is appended, not the n bytes read
VerifyAppend_Whole(plainText, plainTextPart, n) ==
    IF n > 0 THEN plainText \o plainTextPart ELSE plainText

\* if n > 0 { plainText = append(plainText, plainTextPart[:n]...) }
VerifyAppend(plainText, plainTextPart, n) ==
    IF n > 0 THEN plainText \o SubSeq(plainTextPart, 1, n) ELSE plainText

\* the caller hands VerifyBytes the buffer a finished SignBytes returned
CallVerifyBytes(j, from) ==
    /\ pc[from] = "done"
    /\ call[from].kind = "SignBytes"
    /\ Enter(j, [VerifyBytesArgs EXCEPT !.cipherText = ret[from].cipherText],
             VerifyBytesResults, "V_New")

V_New(j) ==
    EngineStep(j, "V_New", "New", {"ctx"}, "V_SetProtocol",
               "VerifyBytes - gpgme.New failed: ")

V_SetProtocol(j) ==
    EngineStep(j, "V_SetProtocol", "SetProtocol", {}, "V_NewDataIn",
               "VerifyBytes - SetProtocol failed: ")

V_NewDataIn(j) ==
    /\ pc[j] = "V_NewDataIn"
    /\ Invoke(j, "NewDataBytes")
    /\ \/ /\ Goto(j, "V_NewDataOut", {"dataIn"}) /\ UNCHANGED ret
          /\ loc' = [loc EXCEPT ![j].dataIn = call[j].cipherText]
       \/ /\ \E e \in EngineErrs :
               ReturnErr(j, "VerifyBytes - NewData (in) failed: " \o e)
          /\ UNCHANGED loc
    /\ UNCHANGED <<fs, call, fs0, engErr>>

V_NewDataOut(j) ==
    EngineStep(j, "V_NewDataOut", "NewData", {"dataOut"}, "V_Verify",
               "VerifyBytes - NewData (out) failed: ")

\* the engine verifies and extracts: the literal data of a signed message
\* goes to dataOut; anything else is an error
V_Verify(j) ==
    /\ pc[j] = "V_Verify"
    /\ Invoke(j, "Verify")
    /\ \/ /\ IsSignedMessage(loc[j].dataIn)
          /\ LET out == LiteralData(loc[j].dataIn)
             IN  loc' = [loc EXCEPT ![j].dataOut = out, ![j].pos = Len(out)]
          /\ Goto(j, "V_Rewind", {})
          /\ ret' = [ret EXCEPT ![j].filename = "embedded",
                                ![j].signatures = "Signatures"]
       \/ /\ \E e \in EngineErrs :
               ReturnErr(j, "VerifyBytes - Verify failed: " \o e)
          /\ UNCHANGED loc
    /\ UNCHANGED <<fs, call, fs0, engErr>>

\* Rewind, and on success the make call before the loop
V_Rewind(j) ==
    /\ pc[j] = "V_Rewind"
    /\ Invoke(j, "Rewind")
    /\ \/ /\ Goto(j, "V_Read", {}) /\ UNCHANGED ret
          /\ loc' = [loc EXCEPT ![j].pos = 0,
                                ![j].plainTextPart = Zeroed(ChunkSize)]
       \/ /\ \E e \in EngineErrs :
               ReturnErr(j, "VerifyBytes - Rewind failed: " \o e)
          /\ UNCHANGED loc
    /\ UNCHANGED <<fs, call, fs0, engErr>>

\* one turn of the drain loop, and the return that follows its break
V_Read(j) ==
    /\ pc[j] = "V_Read"
    /\ Invoke(j, "Read")
    /\ \E r \in DataRead(loc[j].dataOut, loc[j].pos, loc[j].plainTextPart) :
        LET n == r[1]
            err == r[2]
        IN  /\ loc' = [loc EXCEPT ![j].plainTextPart = r[3], ![j].pos = r[4]]
            /\ IF err # nil /\ err # EOF
               THEN Return(j, [ret[j] EXCEPT
                                  !.err = "VerifyBytes - Read failed: " \o err])
               ELSE LET plainText == VerifyAppend(ret[j].plainText, r[3], n)
                    IN  IF err = EOF
                        THEN Return(j, [ret[j] EXCEPT !.err = err,
                                                      !.plainText = plainText])
                        ELSE /\ Goto(j, "V_Read", {})
                             /\ ret' = [ret EXCEPT ![j].err = err,
                                                   ![j].plainText = plainText]
    /\ UNCHANGED <<fs, call, fs0, engErr>>

VerifyBytes(j) ==
    \/ V_New(j) \/ V_SetProtocol(j) \/ V_NewDataIn(j) \/ V_NewDataOut(j)
    \/ V_Verify(j) \/ V_Rewind(j) \/ V_Read(j)

(***************************************************************************)
(* The engine's key handles: a key, its linked user IDs, and the linked    *)
(* signatures of each user ID.                                             *)
(***************************************************************************)
Issuers == {"AAAA", "BBBB"}
Times == {1, 2, 3}
EngineSig == [keyID |-> "", created |-> 0, comment |-> ""]
EngineUid == [hasSig |-> FALSE, signatures |-> <<>>]
EngineKey == [hasUserIDs |-> FALSE, userIDs |-> <<>>]

\* the signature lists of the engine; the comment of a signature stands for
\* the rest of its content and tells the signatures of a list apart
SigLists(n) ==
    {[i \in 1..Len(s) |->
        [EngineSig EXCEPT !.keyID = s[i][1], !.created = s[i][2],
                          !.comment = "sig" \o ToString(i)]] :
        s \in SeqsUpTo(Issuers \X Times, n)}
EngineUids(n) ==
    {[EngineUid EXCEPT !.hasSig = h, !.signatures = l] :
        h \in BOOLEAN, l \in SigLists(n)}
\* keys with no user ID, with one, and with two user IDs of few signatures
EngineKeys ==
    {[EngineKey EXCEPT !.hasUserIDs = h, !.userIDs = u] :
        h \in BOOLEAN,
        u \in {<<>>} \cup {<<a>> : a \in EngineUids(MaxSigs)}
                     \cup {<<a, b>> : a \in EngineUids(1), b \in EngineUids(1)}}

(***************************************************************************)
(* fillKey, fillUserIDs, fillUidSignatures                                 *)
(***************************************************************************)
\* time.Time.Compare
TimeCompare(t, u) == IF t < u THEN -1 ELSE IF t > u THEN 1 ELSE 0

\* mutant: a is compared to b, the ascending order
SigCompare_Ascending(a, b) == TimeCompare(a.CreationTime, b.CreationTime)

\* the comparator handed to slices.SortFunc
SigCompare(a, b) == TimeCompare(b.CreationTime, a.CreationTime)

\* slices.SortFunc(s, cmp): s in ascending order as cmp determines; the sort
\* is not guaranteed to be stable, so every ordered arrangement is an outcome
SortFunc(s) ==
    {t \in {[i \in 1..Len(s) |-> s[p[i]]] : p \in Permutations(1..Len(s))} :
        \A i, j \in 1..Len(t) : i < j => SigCompare(t[j], t[i]) >= 0}

\* the body of the loop over the linked signatures: one record per signature
OneSig(sig) ==
    [NoSignature EXCEPT !.IssuerKeyID = sig.keyID,
                        !.CreationTime = sig.created,
                        !.Comment = sig.comment]

\* mutant: sigs[keyID] = the one record, what the issuer had before is dropped
RECURSIVE GroupByIssuer_Overwrite(_, _)
GroupByIssuer_Overwrite(signatures, sigs) ==
    IF signatures = <<>> THEN sigs
    ELSE LET oneSig == OneSig(Head(signatures))
             keyID == oneSig.IssuerKeyID
             grown == [id \in DOMAIN sigs \cup {keyID} |->
                          IF id = keyID THEN <<oneSig>> ELSE sigs[id]]
         IN  GroupByIssuer_Overwrite(Tail(signatures), grown)

\* sigs[keyID] = append(sigs[keyID], oneSig), over the whole list
RECURSIVE GroupByIssuer(_, _)
GroupByIssuer(signatures, sigs) ==
    IF signatures = <<>> THEN sigs
    ELSE LET oneSig == OneSig(Head(signatures))
             keyID == oneSig.IssuerKeyID
             grown == [id \in DOMAIN sigs \cup {keyID} |->
                          IF id = keyID
                          THEN (IF id \in DOMAIN sigs THEN sigs[id] ELSE <<>>)
                                   \o <<oneSig>>
                          ELSE sigs[id]]
         IN  GroupByIssuer(Tail(signatures), grown)

\* fillUidSignatures(uid): the maps it can return
FillUidSignatures(uid) ==
    LET grouped == GroupByIssuer(uid.signatures, <<>>)
        ids == DOMAIN grouped
    IN  {m \in [ids -> UNION {SortFunc(grouped[id]) : id \in ids}] :
            \A id \in ids : m[id] \in SortFunc(grouped[id])}

CallFillKey(j) ==
    \E k \in EngineKeys :
        Enter(j, [FillKeyArgs EXCEPT !.k = k], FillKeyResults, "F_FillKey")

\* fillKey up to its branch on key.HasUserIDs
F_FillKey(j) ==
    /\ pc[j] = "F_FillKey"
    /\ ret' = [ret EXCEPT ![j].key.HasUserIDs = call[j].k.hasUserIDs]
    /\ IF call[j].k.hasUserIDs
       THEN Goto(j, "F_FillUserIDs", {})
       ELSE Goto(j, "F_Return", {})
    /\ UNCHANGED <<fs, call, loc, called, fs0, engErr>>

\* one turn of the loop of fillUserIDs, or its exit
F_FillUserIDs(j) ==
    /\ pc[j] = "F_FillUserIDs"
    /\ IF loc[j].i <= Len(call[j].k.userIDs)
       THEN LET uid == call[j].k.userIDs[loc[j].i]
            IN  /\ \E sigs \in (IF uid.hasSig
                                THEN FillUidSignatures(uid)
                                ELSE {<<>>}) :
                     ret' = [ret EXCEPT ![j].key.UserIDs =
                                Append(@, [NoUserID EXCEPT
                                              !.HasSignatures = uid.hasSig,
                                              !.Signatures = sigs])]
                /\ loc' = [loc EXCEPT ![j].i = @ + 1]
                /\ Goto(j, "F_FillUserIDs", {})
       ELSE /\ Goto(j, "F_Return", {})
            /\ UNCHANGED <<ret, loc>>
    /\ UNCHANGED <<fs, call, called, fs0, engErr>>

F_Return(j) ==
    /\ pc[j] = "F_Return"
    /\ Return(j, ret[j])
    /\ UNCHANGED <<fs, call, loc, called, fs0, engErr>>

FillKey(j) == F_FillKey(j) \/ F_FillUserIDs(j) \/ F_Return(j)

(***************************************************************************)
(* The specification of one file job.                                      *)
(***************************************************************************)
Init ==
    /\ fs \in InitialFS
    /\ pc = [j \in Jobs |-> "idle"]
    /\ call = [j \in Jobs |-> NoArgs]
    /\ loc = [j \in Jobs |-> NoLocals]
    /\ ret = [j \in Jobs |-> NoResults]
    /\ held = [j \in Jobs |-> {}]
    /\ called = [j \in Jobs |-> {}]
    /\ fs0 = [j \in Jobs |-> fs]
    /\ exit = [j \in Jobs |-> "none"]
    /\ engErr = [j \in Jobs |-> "none"]
    /\ deferred = [j \in Jobs |-> {}]

Next ==
    \/ CallModRecipients(1) \/ ModRecipients(1)
    \/ CallEncryptFile(1) \/ EncryptFile(1)
    \/ CallDecryptFile(1) \/ DecryptFile(1)

Spec == Init /\ [][Next]_vars

(***************************************************************************)
(* The specification of the byte-buffer operations: a SignBytes call, and  *)
(* a VerifyBytes call on the buffer it returned.                           *)
(***************************************************************************)
InitBytes ==
    /\ fs = BaseFS
    /\ pc = [j \in Jobs |-> "idle"]
    /\ call = [j \in Jobs |-> NoArgs]
    /\ loc = [j \in Jobs |-> NoLocals]
    /\ ret = [j \in Jobs |-> NoResults]
    /\ held = [j \in Jobs |-> {}]
    /\ called = [j \in Jobs |-> {}]
    /\ fs0 = [j \in Jobs |-> fs]
    /\ exit = [j \in Jobs |-> "none"]
    /\ engErr = [j \in Jobs |-> "none"]
    /\ deferred = [j \in Jobs |-> {}]

NextBytes ==
    \/ CallSignBytes(1) \/ SignBytes(1)
    \/ CallVerifyBytes(2, 1) \/ VerifyBytes(2)

SpecBytes == InitBytes /\ [][NextBytes]_vars

(***************************************************************************)
(* The specification of the key record builder: one fillKey call on a key  *)
(* handle of the engine.                                                   *)
(***************************************************************************)
InitKeys == InitBytes

NextKeys == CallFillKey(1) \/ FillKey(1)

SpecKeys == InitKeys /\ [][NextKeys]_vars

(***************************************************************************)
(* The specification of two ModRecipients jobs that run concurrently on    *)
(* the same file: the steps of the two calls interleave.                   *)
(***************************************************************************)
ConcurrentCalls ==
    {[ModRecipientsArgs EXCEPT !.operation = EncryptAddRecp,
                               !.filename = "a.gpg",
                               !.backupExtension = x,
                               !.recipients = <<"alice">>] :
        x \in {"", ".bak"}}

CallConcurrent(j) ==
    \E args \in ConcurrentCalls : Enter(j, args, NoResults, "M_CheckOp")

InitConc == InitBytes

NextConc == \E j \in Jobs : CallConcurrent(j) \/ ModRecipients(j)

SpecConc == InitConc /\ [][NextConc]_vars

(***************************************************************************)
(* Properties.                                                             *)
(***************************************************************************)
Done(j) == pc[j] = "done"
Kind(j) == call[j].kind
EndsWith(str, suffix) ==
    /\ Len(str) >= Len(suffix)
    /\ SubSeq(str, Len(str) - Len(suffix) + 1, Len(str)) = suffix
Extensions == {".gpg", ".pgp", ".asc"}
HasExtension(str) == \E x \in Extensions : EndsWith(str, x)
Stripped(str) == SubSeq(str, 1, Len(str) - 4)
\* the two filesystems agree on every path outside the set paths
AgreeOutside(f, g, paths) ==
    \A p \in (DOMAIN f \cup DOMAIN g) \ paths :
        Exists(f, p) /\ Exists(g, p) /\ f[p] = g[p]
SamePath(f, g, p) ==
    /\ Exists(f, p) <=> Exists(g, p)
    /\ Exists(f, p) => f[p] = g[p]
EngineWrites == {"Encrypt", "EncryptSign", "DecryptVerify"}

\* C1: ModRecipients called with an operation tag other than EncryptAddRecp or
\* EncryptChgRecp returns an error, invokes no engine operation and leaves the
\* filesystem as it was when the call was made.
C1_InvalidOperationRejected ==
    \A j \in Jobs :
        (/\ Kind(j) = "ModRecipients"
         /\ call[j].operation \notin {EncryptAddRecp, EncryptChgRecp})
        => /\ pc[j] \in {"M_CheckOp", "done"}
           /\ Done(j) => ret[j].err # nil
           /\ called[j] = {}
           /\ fs = fs0[j]

C1_Witness ==
    /\ Kind(1) = "ModRecipients"
    /\ call[1].operation = EncryptAddRecp \cup EncryptChgRecp
    /\ Done(1)
    /\ ret[1].err = "ModRecipients - invalid operation"

\* the destination DecryptFile is to write, as the caller sees it: the explicit
\* one, or the source without its extension
ExpectedDestinations(j) ==
    IF call[j].clearFilename # ""
    THEN {call[j].clearFilename}
    ELSE IF HasExtension(call[j].cypherFilename)
         THEN {Stripped(call[j].cypherFilename)}
         ELSE {}

\* C2: when the destination of DecryptFile (explicit, or inferred by stripping
\* the extension) exists when the call is made, the call returns an error, the
\* engine's decrypt+verify is never invoked and the destination is unchanged.
C2_NoOverwrite ==
    \A j \in Jobs :
        Kind(j) = "DecryptFile" =>
            \A d \in ExpectedDestinations(j) :
                Exists(fs0[j], d) =>
                    /\ "DecryptVerify" \notin called[j]
                    /\ Done(j) => ret[j].err # nil
                    /\ SamePath(fs, fs0[j], d)

C2_Witness ==
    /\ Kind(1) = "DecryptFile"
    /\ call[1].cypherFilename = "a.gpg"
    /\ call[1].clearFilename = ""
    /\ Done(1)
    /\ ret[1].err = "DecryptFile - destination file exists: a"

\* the backup files of a source: source + "." + suffix + backupExtension
BackupFiles(f, filename, backupExtension) ==
    {p \in DOMAIN f :
        \E r \in RandomStrings : p = filename \o "." \o r \o backupExtension}

\* C3: after ModRecipients returns success with a backup extension, the source
\* holds the re-encrypted output, exactly one backup file exists and holds the
\* original, and the temp path is gone; without a backup extension the source
\* holds the re-encrypted output and no backup and no temp file exists.
C3_AtomicReplace ==
    \A j \in Jobs :
        (Kind(j) = "ModRecipients" /\ Done(j) /\ ret[j].err = nil) =>
            LET filename == call[j].filename
                original == fs0[j][filename]
                backup == filename \o loc[j].randomFilePart
                                   \o call[j].backupExtension
            IN  /\ Exists(fs, filename)
                /\ fs[filename] = ReEncrypted(original)
                /\ ~Exists(fs, loc[j].outFilename)
                /\ IF call[j].backupExtension # ""
                   THEN /\ BackupFiles(fs, filename, call[j].backupExtension)
                              = {backup}
                        /\ fs[backup] = original
                   ELSE DOMAIN fs = DOMAIN fs0[j]

\* the steps of ModRecipients before the commit
PreCommit ==
    {"M_CheckOp", "M_Stat", "M_New", "M_SetProtocol", "M_NewDataIn",
     "M_SetFileNameIn", "M_NewDataOut", "M_SetFileNameOut", "M_FindKeys",
     "M_Encrypt", "M_CloseOut", "M_CloseIn"}

\* C4: when ModRecipients fails at a step before the commit, the source path is
\* as it was when the call was made and so is every other path but the job's
\* temp path: no backup exists that did not exist before.
C4_NoPartialCommit ==
    \A j \in Jobs :
        (/\ Kind(j) = "ModRecipients" /\ Done(j)
         /\ ret[j].err # nil /\ exit[j] \in PreCommit)
        => /\ loc[j].outFilename # call[j].filename
           /\ SamePath(fs, fs0[j], call[j].filename)
           /\ AgreeOutside(fs, fs0[j], {loc[j].outFilename})

C4_Witness ==
    /\ Kind(1) = "ModRecipients"
    /\ Done(1)
    /\ exit[1] = "M_Encrypt"
    /\ ret[1].err = "ModRecipients - Encrypt failed: General error"
    /\ Exists(fs, loc[1].outFilename)
    /\ fs[loc[1].outFilename] = PARTIAL

SourceOf(j) ==
    IF Kind(j) = "EncryptFile" THEN call[j].sourceFilename
    ELSE IF Kind(j) = "DecryptFile" THEN call[j].cypherFilename
    ELSE call[j].filename

\* C5: EncryptFile and DecryptFile never change the existence or the content of
\* the source file, whatever the destination argument is (a path equal to the
\* source included), and change no path but the destination.
C5_SourceUntouched ==
    \A j \in Jobs :
        Kind(j) \in {"EncryptFile", "DecryptFile"} =>
            /\ SamePath(fs, fs0[j], SourceOf(j))
            /\ AgreeOutside(fs, fs0[j], {loc[j].destination})

\* the steps of DecryptFile after the destination is computed
AfterDestination ==
    {"D_StatDestination", "D_SetFileNameOut", "D_DecryptVerify",
     "D_DecryptResult", "D_VerifyResult"}
PastDestination(j) ==
    /\ Kind(j) = "DecryptFile"
    /\ \/ pc[j] \in AfterDestination
       \/ Done(j) /\ exit[j] \in AfterDestination \cup {"D_Destination"}
NoDestination(j) ==
    /\ Done(j)
    /\ exit[j] = "D_Destination"
    /\ ret[j].err = NoExtensionError
    /\ "DecryptVerify" \notin called[j]

\* C6 as claimed: an explicit destination is used verbatim; otherwise a source
\* that ends with .gpg, .pgp or .asc gives the source without that extension;
\* otherwise the call fails with the unknown-extension error and the engine is
\* not invoked.
C6_InferenceAsClaimed ==
    \A j \in Jobs :
        PastDestination(j) =>
            IF call[j].clearFilename # ""
            THEN exit[j] # "D_Destination"
                 /\ loc[j].destination = call[j].clearFilename
            ELSE IF HasExtension(call[j].cypherFilename)
            THEN exit[j] # "D_Destination"
                 /\ loc[j].destination = Stripped(call[j].cypherFilename)
            ELSE NoDestination(j)

\* C6 as amended: an explicit destination is used verbatim; otherwise a source
\* longer than four characters that ends with .gpg, .pgp or .asc gives the
\* source without that extension; otherwise (a source that is the bare
\* extension included) the call fails with the unknown-extension error and the
\* engine is not invoked.
C6_Inference ==
    \A j \in Jobs :
        PastDestination(j) =>
            IF call[j].clearFilename # ""
            THEN exit[j] # "D_Destination"
                 /\ loc[j].destination = call[j].clearFilename
            ELSE IF Len(call[j].cypherFilename) > 4
                    /\ HasExtension(call[j].cypherFilename)
            THEN exit[j] # "D_Destination"
                 /\ loc[j].destination = Stripped(call[j].cypherFilename)
            ELSE NoDestination(j)

C6_Witness ==
    /\ PastDestination(1)
    /\ call[1].cypherFilename = "a.asc"
    /\ call[1].clearFilename = ""
    /\ loc[1].destination = "a"
    /\ pc[1] = "D_StatDestination"

ValidationErrors ==
    {"ModRecipients - file does not exist: " \o ENOENT,
     "ModRecipients - file is a directory: " \o nil,
     "DecryptFile - file does not exist: " \o ENOENT,
     "DecryptFile - file is a directory: " \o nil,
     "EncryptFile - file does not exist: " \o ENOENT,
     "EncryptFile - file is a directory: " \o nil}

\* the steps that only set up the engine: context, data handles, keys
EngineSetup ==
    {"M_New", "M_SetProtocol", "M_NewDataIn", "M_SetFileNameIn",
     "M_NewDataOut", "M_SetFileNameOut", "M_FindKeys",
     "E_New", "E_SetProtocol", "E_NewDataIn", "E_SetFileNameIn",
     "E_NewDataOut", "E_SetFileNameOut", "E_FindKeys",
     "D_New", "D_SetProtocol", "D_NewDataIn", "D_SetFileNameIn",
     "D_NewDataOut", "D_SetFileNameOut"}

\* C7: for every kind of job, when the source does not exist or is a directory
\* the job fails in its validation step with a source error, before the engine
\* is asked to encrypt or decrypt and before any path is created. (A failure
\* of the engine's own set-up is not held against the claim.)
C7_SourceValidated ==
    \A j \in Jobs :
        (/\ Kind(j) \in {"ModRecipients", "EncryptFile", "DecryptFile"}
         /\ ~IsFile(fs0[j], SourceOf(j))
         /\ Kind(j) = "ModRecipients" =>
                call[j].operation \in {EncryptAddRecp, EncryptChgRecp})
        => /\ called[j] \cap EngineWrites = {}
           /\ fs = fs0[j]
           /\ (Done(j) /\ exit[j] \notin EngineSetup) =>
                  ret[j].err \in ValidationErrors

\* C10: in DecryptFile the error of the engine's decrypt+verify is swallowed
\* exactly when it is the no-data condition: then a warning is returned and both
\* results are fetched, and the call returns nil when both fetches succeed; any
\* other error is returned wrapped, with no warning and no result fetched.
C10_NoDataOnly ==
    \A j \in Jobs :
        (Kind(j) = "DecryptFile" /\ "DecryptVerify" \in called[j]) =>
            IF engErr[j] = nil
            THEN ret[j].warning = ""
            ELSE IF engErr[j] = "No data"
            THEN /\ ret[j].warning # ""
                 /\ exit[j] # "D_DecryptVerify"
                 /\ pc[j] = "D_DecryptResult" \/ "DecryptResult" \in called[j]
                 /\ pc[j] \in {"D_DecryptResult", "D_VerifyResult", "done"}
                 /\ Done(j) =>
                      /\ ret[j].err \in
                            {nil,
                             "DecryptFile - DecryptResult failed: General error",
                             "DecryptFile - VerifyResult failed: General error"}
                      /\ ret[j].err = nil <=>
                            /\ ret[j].decryptionResult # nil
                            /\ ret[j].signatures # nil
                      /\ exit[j] = "D_VerifyResult" =>
                            "VerifyResult" \in called[j]
            ELSE /\ Done(j)
                 /\ exit[j] = "D_DecryptVerify"
                 /\ ret[j].err = "DecryptFile - DecryptVerify failed: " \o engErr[j]
                 /\ ret[j].warning = ""
                 /\ called[j] \cap {"DecryptResult", "VerifyResult"} = {}

C10_Witness ==
    /\ Kind(1) = "DecryptFile"
    /\ engErr[1] = "No data"
    /\ Done(1)
    /\ ret[1].err = nil
    /\ ret[1].warning = "DecryptFile - DecryptVerify: no encrypted data"
    /\ ret[1].decryptionResult # nil
    /\ ret[1].signatures # nil


\* SignBytes ran to the end of the signed data, VerifyBytes of its buffer too
SignedThenVerified ==
    /\ Kind(1) = "SignBytes" /\ Done(1)
    /\ exit[1] = "S_Read" /\ ret[1].err = EOF
    /\ Kind(2) = "VerifyBytes" /\ Done(2)
    /\ call[2].cipherText = ret[1].cipherText
    /\ exit[2] = "V_Read" /\ ret[2].err = EOF

\* C8: when SignBytes(P, identity, armored = true) with an identity that
\* resolves to a key has returned its buffer and VerifyBytes of that buffer
\* has returned, the plaintext VerifyBytes returns equals P, for P empty,
\* shorter than, as long as and longer than the chunk size.
C8_RoundTrip ==
    (SignedThenVerified /\ call[1].armored /\ Keyring(call[1].signWith) # <<>>)
        => ret[2].plainText = call[1].plainText

\* a round trip of a plaintext longer than the chunk
C8_Witness ==
    /\ SignedThenVerified /\ call[1].armored
    /\ Keyring(call[1].signWith) # <<>>
    /\ Len(call[1].plainText) > ChunkSize
    /\ ret[2].plainText = call[1].plainText

\* the creation times of a sequence of built signature records
CreationTimes(sigs) == [i \in 1..Len(sigs) |-> sigs[i].CreationTime]
\* the linked signatures of a user ID that one issuer made
IssuedBy(uid, id) == SelectSeq(uid.signatures, LAMBDA sig : sig.keyID = id)

\* C9: in the key record fillKey builds, every issuer's signature sequence of
\* every user ID is in descending order of creation time, and for a user ID
\* with three signatures of one issuer at times t1 < t2 < t3, listed by the
\* engine in any order, the issuer's sequence is exactly [t3, t2, t1].
C9_SignaturesDescending ==
    Kind(1) = "fillKey" =>
        \A u \in 1..Len(ret[1].key.UserIDs) :
            LET built == ret[1].key.UserIDs[u].Signatures
                uid == call[1].k.userIDs[u]
            IN  \A id \in DOMAIN built :
                    /\ \A i \in 1..(Len(built[id]) - 1) :
                           built[id][i].CreationTime
                               >= built[id][i + 1].CreationTime
                    /\ \A t1, t2, t3 \in Times :
                           ( /\ t1 < t2 /\ t2 < t3
                             /\ Len(IssuedBy(uid, id)) = 3
                             /\ {sig.created : sig \in
                                    {IssuedBy(uid, id)[i] : i \in 1..3}}
                                  = {t1, t2, t3} )
                           => CreationTimes(built[id]) = <<t3, t2, t1>>

\* a finished record of a user ID whose three signatures of one issuer the
\* engine listed at times 2, 3, 1
C9_Witness ==
    /\ Kind(1) = "fillKey" /\ Done(1)
    /\ Len(ret[1].key.UserIDs) = 1
    /\ call[1].k.userIDs[1].hasSig
    /\ Len(call[1].k.userIDs[1].signatures) = 3
    /\ [i \in 1..3 |-> call[1].k.userIDs[1].signatures[i].created]
           = <<2, 3, 1>>
    /\ IssuedBy(call[1].k.userIDs[1], "AAAA") = call[1].k.userIDs[1].signatures
    /\ CreationTimes(ret[1].key.UserIDs[1].Signatures["AAAA"]) = <<3, 2, 1>>


\* the patterns a call hands to the engine's lookup
PatternsOf(j) ==
    IF Kind(j) = "SignBytes" THEN {call[j].signWith}
    ELSE {call[j].recipients[i] : i \in 1..Len(call[j].recipients)}
Contains(str, part) ==
    \E i \in 1..(Len(str) - Len(part) + 1) :
        SubSeq(str, i, i + Len(part) - 1) = part
EngineCrypto == {"Encrypt", "EncryptSign", "Sign"}
LookupSteps == {"M_FindKeys", "E_FindKeys", "S_FindKeys"}

\* C11: in EncryptFile, ModRecipients and SignBytes, when a pattern resolves
\* to no key or its lookup fails, the engine's encrypt or sign operation is
\* never invoked, and the error of a failed lookup names the recipient.
C11_LookupFailureStops ==
    \A j \in Jobs :
        Kind(j) \in {"ModRecipients", "EncryptFile", "SignBytes"} =>
            /\ (\E p \in PatternsOf(j) : Keyring(p) = <<>>) =>
                   called[j] \cap EngineCrypto = {}
            /\ (Done(j) /\ exit[j] \in LookupSteps) =>
                   \E p \in PatternsOf(j) : Contains(ret[j].err, p)


\* the errors a failed chunk read is returned as
ReadFailures ==
    {"SignBytes - Read failed: " \o e : e \in EngineErrs}
        \cup {"VerifyBytes - Read failed: " \o e : e \in EngineErrs}
\* the buffer a call of SignBytes or VerifyBytes returns
Buffer(j) ==
    IF Kind(j) = "SignBytes" THEN ret[j].cipherText ELSE ret[j].plainText
\* the call has returned from its drain loop
ReturnedFromDrain(j) ==
    /\ Kind(j) \in {"SignBytes", "VerifyBytes"}
    /\ Done(j)
    /\ exit[j] \in {"S_Read", "V_Read"}
\* the drain read the engine's output to its end
DrainedToEnd(j) ==
    /\ ReturnedFromDrain(j)
    /\ ret[j].err \notin ReadFailures

\* C12: when the engine's verify succeeded and the drain reached the end of
\* the stream with no byte read, VerifyBytes returns an error that tells the
\* empty result: an error, and not the end-of-stream value of the drain.
C12_EmptyResultError ==
    \A j \in Jobs :
        (/\ Kind(j) = "VerifyBytes" /\ DrainedToEnd(j)
         /\ loc[j].dataOut = <<>>)
        => /\ ret[j].err # nil
           /\ ret[j].err # EOF

\* C13: when a chunk read of the drain of SignBytes or VerifyBytes fails with
\* an error other than end-of-stream, the call returns that error wrapped and
\* a buffer that holds none of the chunks read before.
C13_PartialOutputDiscarded ==
    \A j \in Jobs :
        (ReturnedFromDrain(j) /\ ~DrainedToEnd(j)) =>
            /\ ret[j].err \in ReadFailures
            /\ Buffer(j) = <<>>

\* C14: when the engine call succeeded and the drain of SignBytes or
\* VerifyBytes reached the end of the stream, the call returns the whole output
\* of the engine, the chunks in read order, and a nil error.
C14_NilErrorAtEndOfStream ==
    \A j \in Jobs :
        DrainedToEnd(j) =>
            /\ Buffer(j) = loc[j].dataOut
            /\ ret[j].err = nil


InCommit(j) ==
    \/ pc[j] \in {"M_Commit1", "M_Commit2"}
    \/ Done(j) /\ exit[j] \in {"M_Commit1", "M_Commit2"}
\* step (1) of the commit has succeeded
Step1Done(j) ==
    \/ pc[j] = "M_Commit2"
    \/ Done(j) /\ exit[j] = "M_Commit2"
BackupOf(j) ==
    BackupFilename(call[j].filename, loc[j].randomFilePart,
                   call[j].backupExtension)

\* C16: in ModRecipients the source path changes only once step (1) of the
\* commit has succeeded; the commit is entered only after the engine reported
\* success and both data handles were closed; and step (2) is attempted only
\* with step (1) done: the source is gone from its path and, with a backup
\* extension, the backup holds the original.
C16_CommitOrder ==
    \A j \in Jobs :
        Kind(j) = "ModRecipients" =>
            LET filename == call[j].filename
            IN  /\ ~SamePath(fs, fs0[j], filename) => Step1Done(j)
                /\ InCommit(j) =>
                       /\ engErr[j] = nil
                       /\ "Close" \in called[j]
                       /\ ~Done(j) => held[j] \cap {"dataIn", "dataOut"} = {}
                /\ (Step1Done(j) /\ ~(Done(j) /\ ret[j].err = nil)) =>
                       /\ ~Exists(fs, filename)
                       /\ call[j].backupExtension # "" =>
                              /\ Exists(fs, BackupOf(j))
                              /\ fs[BackupOf(j)] = fs0[j][filename]

\* step (1) has renamed the source to the backup, step (2) is about to run
C16_Witness ==
    /\ Kind(1) = "ModRecipients"
    /\ pc[1] = "M_Commit2"
    /\ call[1].backupExtension = ".bak"
    /\ ~Exists(fs, call[1].filename)
    /\ fs[BackupOf(1)] = fs0[1][call[1].filename]
    /\ fs[loc[1].outFilename] = ReEncrypted(fs0[1][call[1].filename])


\* step (1) of the commit succeeded and step (2) failed
Step2Failed(j) ==
    /\ Kind(j) = "ModRecipients" /\ Done(j)
    /\ exit[j] = "M_Commit2" /\ ret[j].err # nil

\* C17: when step (1) of the commit succeeded and step (2) failed,
\* ModRecipients returns the error and rolls nothing back: nothing is at the
\* source path, the re-encrypted output is at the temp path, the backup (if
\* one was requested) holds the original, and no other path has changed.
C17_NoRollback ==
    \A j \in Jobs :
        Step2Failed(j) =>
            LET filename == call[j].filename
                original == fs0[j][filename]
            IN  /\ ~Exists(fs, filename)
                /\ Exists(fs, loc[j].outFilename)
                /\ fs[loc[j].outFilename] = ReEncrypted(original)
                /\ call[j].backupExtension # "" =>
                       /\ Exists(fs, BackupOf(j))
                       /\ fs[BackupOf(j)] = original
                /\ AgreeOutside(fs, fs0[j],
                                {filename, loc[j].outFilename, BackupOf(j)})


\* the complete encrypted copies of the file a job works on
CompleteCopies(j) ==
    {fs0[j][call[j].filename], ReEncrypted(fs0[j][call[j].filename])}
\* a ModRecipients job called on an existing file
OnFile(j) ==
    /\ Kind(j) = "ModRecipients"
    /\ IsFile(fs0[j], call[j].filename)

\* C18: in every state of a ModRecipients job on an existing file, with or
\* without a backup extension, a complete encrypted copy (the original or the
\* whole re-encrypted output) is at the source path, the backup path or the
\* temp path.
C18_DataNotLost ==
    \A j \in Jobs :
        OnFile(j) =>
            \E p \in {call[j].filename, BackupOf(j), loc[j].outFilename} :
                /\ Exists(fs, p)
                /\ fs[p] \in CompleteCopies(j)

\* no backup was requested, step (1) has removed the original, and a failed
\* step (2) leaves the re-encrypted output at the temp path as the only copy
C18_Witness ==
    /\ OnFile(1) /\ Step2Failed(1)
    /\ call[1].backupExtension = ""
    /\ ~Exists(fs, call[1].filename)
    /\ fs[loc[1].outFilename] = ReEncrypted(fs0[1][call[1].filename])

\* the temp paths of a source: source + "." + 8 random characters + ".tmp"
TempPaths(filename) ==
    {filename \o "." \o r \o ".tmp" : r \in {x \in RandomStrings : Len(x) = 8}}

\* C19: in every state of a ModRecipients job on an existing file, a file at
\* the source path holds the complete original or the complete re-encrypted
\* output; the path the engine is given to write is the temp path source +
\* "." + 8 random characters + ".tmp", never the source path.
C19_NoPartialAtSource ==
    \A j \in Jobs :
        OnFile(j) =>
            /\ Exists(fs, call[j].filename) =>
                   fs[call[j].filename] \in CompleteCopies(j)
            /\ "Encrypt" \in called[j] =>
                   /\ loc[j].outFilename \in TempPaths(call[j].filename)
                   /\ loc[j].outFilename # call[j].filename

\* the engine's Encrypt failed and left a partly written temp file
C19_Witness ==
    /\ OnFile(1) /\ Done(1) /\ exit[1] = "M_Encrypt"
    /\ Exists(fs, loc[1].outFilename)
    /\ fs[loc[1].outFilename] = PARTIAL
    /\ fs[call[1].filename] = fs0[1][call[1].filename]


\* step (1) of the commit failed because nothing was at the source path
SourceGone(j) ==
    /\ Kind(j) = "ModRecipients" /\ Done(j) /\ exit[j] = "M_Commit1"
    /\ ret[j].err \in {"ModRecipients - file rename (1) failed: " \o ENOENT,
                      "ModRecipients - file remove failed: " \o ENOENT}
Succeeded(j) == Kind(j) = "ModRecipients" /\ Done(j) /\ ret[j].err = nil
\* the file the two concurrent jobs are called on, before either has run
Original == BaseFS["a.gpg"]

\* C20: two ModRecipients jobs on the same file, each with its own random
\* suffix, race on the commit: a job fails in step (1) of its commit for a
\* missing source only when the other job has already renamed or removed the
\* source; and when both return success the source holds one complete
\* re-encryption, either of the other job's output (the jobs took turns) or of
\* the original alone (a lost update, which the witness shows to be reachable).
C20_CommitRace ==
    \A j, k \in Jobs :
        (j # k /\ loc[j].randomFilePart # loc[k].randomFilePart) =>
            /\ SourceGone(j) => Step1Done(k)
            /\ (Succeeded(j) /\ Succeeded(k)) =>
                   /\ Exists(fs, "a.gpg")
                   /\ fs["a.gpg"] \in {ReEncrypted(Original),
                                       ReEncrypted(ReEncrypted(Original))}

\* the lost update: both jobs were called on the original and returned
\* success, job 2 committed last, its backup is the output job 1 committed,
\* and the source holds a re-encryption of the original alone
C20_Witness ==
    /\ Succeeded(1) /\ Succeeded(2)
    /\ loc[1].randomFilePart # loc[2].randomFilePart
    /\ call[1].backupExtension = ".bak" /\ call[2].backupExtension = ".bak"
    /\ fs[BackupOf(1)] = Original
    /\ fs[BackupOf(2)] = ReEncrypted(Original)
    /\ fs["a.gpg"] = ReEncrypted(Original)

\* the other outcome of the race: job 2 fails in step (1) of its commit
\* because job 1 has renamed the source and not yet put its output there
C20_SourceGone ==
    /\ SourceGone(2)
    /\ pc[1] = "M_Commit2"
    /\ ~Exists(fs, "a.gpg")


\* the place of a built signature record in the engine's traversal of the
\* signatures of the user ID
EnginePosition(uid, rec) ==
    CHOOSE n \in 1..Len(uid.signatures) : OneSig(uid.signatures[n]) = rec

\* C21: the sort of the build is stable, so that the build gives one result
\* for one engine output: in every issuer's sequence of every user ID of a
\* built key record, signatures with equal creation times are in the order in
\* which the engine listed them.
C21_StableSort ==
    Kind(1) = "fillKey" =>
        \A u \in 1..Len(ret[1].key.UserIDs) :
            LET built == ret[1].key.UserIDs[u].Signatures
                uid == call[1].k.userIDs[u]
            IN  \A id \in DOMAIN built :
                    \A i, j \in 1..Len(built[id]) :
                        ( /\ i < j
                          /\ built[id][i].CreationTime
                                 = built[id][j].CreationTime )
                        => EnginePosition(uid, built[id][i])
                               < EnginePosition(uid, built[id][j])


\* C22: in the key record fillKey returns for any key handle of the engine, a
\* handle whose has-user-IDs flag disagrees with its list of user IDs
\* included, HasUserIDs is true exactly when UserIDs is not empty.
C22_HasUserIDsAgrees ==
    (Kind(1) = "fillKey" /\ Done(1)) =>
        (ret[1].key.HasUserIDs <=> ret[1].key.UserIDs # <<>>)


\* the places <<issuer, index>> of the records of a built signature mapping
Places(built) ==
    UNION {{<<id, i>> : i \in 1..Len(built[id])} : id \in DOMAIN built}

\* C23: for every user ID that has signatures, the built mapping is a
\* partition of the signatures the engine lists: every signature is at exactly
\* one place of exactly one group, the key of a group is the IssuerKeyID of
\* each of its records, no group is empty, and the records are as many as the
\* signatures listed.
C23_Partition ==
    Kind(1) = "fillKey" =>
        \A u \in 1..Len(ret[1].key.UserIDs) :
            LET built == ret[1].key.UserIDs[u].Signatures
                uid == call[1].k.userIDs[u]
            IN  uid.hasSig =>
                    /\ \A n \in 1..Len(uid.signatures) :
                           Cardinality({pl \in Places(built) :
                               built[pl[1]][pl[2]] = OneSig(uid.signatures[n])})
                             = 1
                    /\ \A id \in DOMAIN built :
                           /\ built[id] # <<>>
                           /\ \A i \in 1..Len(built[id]) :
                                  built[id][i].IssuerKeyID = id
                    /\ Cardinality(Places(built)) = Len(uid.signatures)

\* a user ID with three signatures of two issuers, grouped
C23_Witness ==
    /\ Kind(1) = "fillKey" /\ Done(1)
    /\ Len(ret[1].key.UserIDs) = 1
    /\ call[1].k.userIDs[1].hasSig
    /\ Len(call[1].k.userIDs[1].signatures) = 3
    /\ DOMAIN ret[1].key.UserIDs[1].Signatures = {"AAAA", "BBBB"}
    /\ Len(ret[1].key.UserIDs[1].Signatures["AAAA"]) = 2
    /\ Len(ret[1].key.UserIDs[1].Signatures["BBBB"]) = 1


\* C24: for every backup extension ModRecipients is called with, the backup
\* path of the job differs from its temp path and from the source path, so
\* that a successful return leaves the re-encrypted content at the source.
C24_BackupPathDistinct ==
    \A j \in Jobs :
        (Kind(j) = "ModRecipients" /\ loc[j].outFilename # "") =>
            /\ BackupOf(j) # loc[j].outFilename
            /\ BackupOf(j) # call[j].filename
            /\ Succeeded(j) =>
                   /\ Exists(fs, call[j].filename)
                   /\ fs[call[j].filename]
                          = ReEncrypted(fs0[j][call[j].filename])

====
